---------------------------- MODULE Spec2Model ----------------------------
(***************************************************************************)
(* sps_plot: reactions, their resolution against the mass table, their     *)
(* excitation levels and the kinematics that turns each level into a       *)
(* magnetic rigidity (src/src/app.rs), the construction and persistence of *)
(* the application, and the level getter that writes excitation_levels.csv *)
(* (src/nndc_excitation_level_getter/src/excitation_fetcher.rs).           *)
(*                                                                         *)
(* Numbers.  An f64 is a record [k, v]: k = "num" is a finite value held   *)
(* in fixed point (v units of 1/FScale), k = "nan" is NaN and k = "inf" is *)
(* an infinity of sign v.  NaN and the infinities follow IEEE 754; finite  *)
(* results are truncated to the fixed-point grid.  An i32 is an integer of *)
(* IntBits bits (two's complement), a u32 one of IntBits bits unsigned.    *)
(***************************************************************************)
EXTENDS Integers, Sequences, FiniteSets, TLC

\* Bounds of the model.
FScale == 1000
IntBits == 10
MaxReactions == 2
MaxExtra == 2
MaxIsotopes == 2
MaxRows == 3

-----------------------------------------------------------------------------
\* i32 and u32

RECURSIVE Pow2(_)
Pow2(n) == IF n = 0 THEN 1 ELSE 2 * Pow2(n - 1)

I32Max == Pow2(IntBits - 1) - 1
I32Min == -Pow2(IntBits - 1)

InI32(x) == I32Min <= x /\ x <= I32Max

\* wrapping i32 arithmetic (a release build): the value modulo 2^IntBits
WrapI32(x) == ((x - I32Min) % Pow2(IntBits)) + I32Min

\* mutant of AsU32: the magnitude (unsigned_abs) instead of the cast
AsU32_magnitude(x) == IF x < 0 THEN -x ELSE x

\* `x as u32`
AsU32(x) == x % Pow2(IntBits)

-----------------------------------------------------------------------------
\* f64

Num(v) == [k |-> "num", v |-> v]
NaN == [k |-> "nan", v |-> 0]
Inf(s) == [k |-> "inf", v |-> s]

\* n / d as an f64 literal
Lit(n, d) == Num((n * FScale) \div d)

\* `z as f64`
FromInt(z) == Num(z * FScale)

IsNaN(a) == a.k = "nan"
IsFinite(a) == a.k = "num"

Abs(x) == IF x < 0 THEN -x ELSE x
Sgn(x) == IF x < 0 THEN -1 ELSE 1

\* sign of a non-NaN f64; zero counts as positive (+0.0)
FSign(a) == Sgn(a.v)

FNeg(a) == IF a.k = "nan" THEN NaN ELSE [a EXCEPT !.v = -a.v]

FAdd(a, b) ==
    IF a.k = "nan" \/ b.k = "nan" THEN NaN
    ELSE IF a.k = "inf" /\ b.k = "inf" THEN (IF a.v = b.v THEN a ELSE NaN)
    ELSE IF a.k = "inf" THEN a
    ELSE IF b.k = "inf" THEN b
    ELSE Num(a.v + b.v)

FSub(a, b) == FAdd(a, FNeg(b))

FMul(a, b) ==
    IF a.k = "nan" \/ b.k = "nan" THEN NaN
    ELSE IF a.k = "inf" \/ b.k = "inf"
         THEN (IF (a.k = "num" /\ a.v = 0) \/ (b.k = "num" /\ b.v = 0)
               THEN NaN ELSE Inf(FSign(a) * FSign(b)))
    ELSE Num(FSign(a) * FSign(b) * ((Abs(a.v) * Abs(b.v)) \div FScale))

FDiv(a, b) ==
    IF a.k = "nan" \/ b.k = "nan" THEN NaN
    ELSE IF a.k = "inf" THEN (IF b.k = "inf" THEN NaN ELSE Inf(FSign(a) * FSign(b)))
    ELSE IF b.k = "inf" THEN Num(0)
    ELSE IF b.v = 0 THEN (IF a.v = 0 THEN NaN ELSE Inf(FSign(a)))
    ELSE Num(FSign(a) * FSign(b) * ((Abs(a.v) * FScale) \div Abs(b.v)))

\* a > b; every comparison with NaN is false
FGt(a, b) ==
    IF a.k = "nan" \/ b.k = "nan" THEN FALSE
    ELSE IF a.k = "inf" THEN a.v = 1 /\ ~(b.k = "inf" /\ b.v = 1)
    ELSE IF b.k = "inf" THEN b.v = -1
    ELSE a.v > b.v

\* floor of the square root of n >= 0, by bisection on lo..hi (lo^2 <= n < (hi+1)^2)
RECURSIVE ISqrtIn(_, _, _)
ISqrtIn(n, lo, hi) ==
    IF lo >= hi THEN lo
    ELSE LET mid == (lo + hi + 1) \div 2
         IN IF mid * mid <= n THEN ISqrtIn(n, mid, hi) ELSE ISqrtIn(n, lo, mid - 1)

ISqrt(n) == ISqrtIn(n, 0, 46340)

\* f64::sqrt: NaN for a negative argument
FSqrt(a) ==
    IF a.k = "nan" THEN NaN
    ELSE IF a.k = "inf" THEN (IF a.v = 1 THEN a ELSE NaN)
    ELSE IF a.v < 0 THEN NaN
    ELSE Num(ISqrt(a.v * FScale))

\* std::f64::consts::PI
PI == Lit(314159, 100000)

\* f64::cos for a finite argument of the first quadrant: 1 - x^2/2 + x^4/24 - x^6/720
FCos(x) ==
    IF x.k # "num" THEN NaN
    ELSE LET x2 == FMul(x, x)
             x4 == FMul(x2, x2)
             x6 == FMul(x4, x2)
         IN FAdd(FSub(FAdd(Num(FScale), FNeg(FDiv(x2, FromInt(2)))),
                      FNeg(FDiv(x4, FromInt(24)))),
                 FNeg(FDiv(x6, FromInt(720))))

-----------------------------------------------------------------------------
\* Option<T>: None is the empty sequence, Some(v) the sequence of v alone

None == <<>>
Some(v) == <<v>>
IsSome(o) == o # <<>>
Unwrap(o) == o[1]

-----------------------------------------------------------------------------
\* The collaborators: the mass table and the table of excitation levels

\* the rows of the mass table (isotope label, Z, A, mass)
NuclearDataTable ==
    { [z |-> 0, a |-> 1, isotope |-> "1n", mass |-> Lit(1009, 1000)],
      [z |-> 1, a |-> 1, isotope |-> "1H", mass |-> Lit(1007, 1000)],
      [z |-> 1, a |-> 2, isotope |-> "2H", mass |-> Lit(2014, 1000)],
      [z |-> 6, a |-> 12, isotope |-> "12C", mass |-> Lit(12000, 1000)],
      [z |-> 6, a |-> 13, isotope |-> "13C", mass |-> Lit(12900, 1000)],
      [z |-> 7, a |-> 13, isotope |-> "13N", mass |-> Lit(13100, 1000)] }

\* NuclearData::get_data(z: u32, a: u32) -> Option<NuclearData>
get_data(z, a) ==
    LET rows == {d \in NuclearDataTable : d.z = z /\ d.a = a}
    IN IF rows = {} THEN None ELSE Some(CHOOSE d \in rows : TRUE)

\* ExcitationLevels::new().get(isotope) -> Option<Vec<f64>>
ExcitationLevels_get(isotope) ==
    CASE isotope = "12C" -> Some(<<Lit(0, 1), Lit(4439, 1000)>>)
      [] isotope = "13C" -> Some(<<Lit(0, 1), Lit(3089, 1000)>>)
      [] isotope = "13N" -> Some(<<Lit(0, 1)>>)
      [] OTHER -> None

-----------------------------------------------------------------------------
\* Reaction

\* Reaction::new(color): every field at its Default
Reaction_new ==
    [ target_z |-> 0, target_a |-> 0, target_data |-> None,
      projectile_z |-> 0, projectile_a |-> 0, projectile_data |-> None,
      ejectile_z |-> 0, ejectile_a |-> 0, ejectile_data |-> None,
      resid_z |-> 0, resid_a |-> 0, resid_data |-> None,
      reaction_identifier |-> "",
      excitation_levels |-> <<>>,
      add_excitation_level |-> Num(0),
      additional_excitation_levels |-> <<>>,
      rho_values |-> <<>> ]

\* mutant of isotope_or_none: an unresolved role gives the empty label
isotope_or_empty(data) == IF IsSome(data) THEN Unwrap(data).isotope ELSE ""

\* .as_ref().map_or("None", |data| &data.isotope)
isotope_or_none(data) == IF IsSome(data) THEN Unwrap(data).isotope ELSE "None"

\* format!("{}({},{}){}", t, p, e, r)
format_identifier(t, p, e, r) == t \o "(" \o p \o "," \o e \o ")" \o r

\* the i32 sums of populate_reaction_data overflow (left to right)
sum_overflows(t, p, e) == ~InI32(t + p) \/ ~InI32(WrapI32(t + p) - e)

populate_overflows(reaction) ==
    \/ sum_overflows(reaction.target_z, reaction.projectile_z, reaction.ejectile_z)
    \/ sum_overflows(reaction.target_a, reaction.projectile_a, reaction.ejectile_a)

\* mutant of balance: the ejectile is added instead of subtracted
balance_adds_ejectile(t, p, e) == WrapI32(WrapI32(t + p) + e)

\* t + p - e in i32, as a build without overflow checks computes it
balance(t, p, e) == WrapI32(WrapI32(t + p) - e)

\* mutant of populate_reaction_data: the earlier results are dropped with the
\* earlier data
populate_reaction_data_drops_rho(reaction) ==
    LET rz == balance(reaction.target_z, reaction.projectile_z, reaction.ejectile_z)
        ra == balance(reaction.target_a, reaction.projectile_a, reaction.ejectile_a)
        td == get_data(AsU32(reaction.target_z), AsU32(reaction.target_a))
        pd == get_data(AsU32(reaction.projectile_z), AsU32(reaction.projectile_a))
        ed == get_data(AsU32(reaction.ejectile_z), AsU32(reaction.ejectile_a))
        rd == get_data(AsU32(rz), AsU32(ra))
    IN [reaction EXCEPT
          !.resid_z = rz, !.resid_a = ra,
          !.target_data = td, !.projectile_data = pd,
          !.ejectile_data = ed, !.resid_data = rd,
          !.reaction_identifier =
              format_identifier(isotope_or_none(td), isotope_or_none(pd),
                                isotope_or_none(ed), isotope_or_none(rd)),
          !.rho_values = <<>>]

\* mutant of populate_reaction_data: the residual is looked up before resid_z
\* and resid_a are recomputed
populate_reaction_data_stale_lookup(reaction) ==
    LET rz == balance(reaction.target_z, reaction.projectile_z, reaction.ejectile_z)
        ra == balance(reaction.target_a, reaction.projectile_a, reaction.ejectile_a)
        td == get_data(AsU32(reaction.target_z), AsU32(reaction.target_a))
        pd == get_data(AsU32(reaction.projectile_z), AsU32(reaction.projectile_a))
        ed == get_data(AsU32(reaction.ejectile_z), AsU32(reaction.ejectile_a))
        rd == get_data(AsU32(reaction.resid_z), AsU32(reaction.resid_a))
    IN [reaction EXCEPT
          !.resid_z = rz, !.resid_a = ra,
          !.target_data = td, !.projectile_data = pd,
          !.ejectile_data = ed, !.resid_data = rd,
          !.reaction_identifier =
              format_identifier(isotope_or_none(td), isotope_or_none(pd),
                                isotope_or_none(ed), isotope_or_none(rd))]

\* Reaction::populate_reaction_data, when it returns
populate_reaction_data(reaction) ==
    LET rz == balance(reaction.target_z, reaction.projectile_z, reaction.ejectile_z)
        ra == balance(reaction.target_a, reaction.projectile_a, reaction.ejectile_a)
        td == get_data(AsU32(reaction.target_z), AsU32(reaction.target_a))
        pd == get_data(AsU32(reaction.projectile_z), AsU32(reaction.projectile_a))
        ed == get_data(AsU32(reaction.ejectile_z), AsU32(reaction.ejectile_a))
        rd == get_data(AsU32(rz), AsU32(ra))
    IN [reaction EXCEPT
          !.resid_z = rz, !.resid_a = ra,
          !.target_data = td, !.projectile_data = pd,
          !.ejectile_data = ed, !.resid_data = rd,
          !.reaction_identifier =
              format_identifier(isotope_or_none(td), isotope_or_none(pd),
                                isotope_or_none(ed), isotope_or_none(rd))]

\* Reaction::fetch_excitation_levels
fetch_excitation_levels(reaction) ==
    LET isotope == isotope_or_none(reaction.resid_data)
        levels == ExcitationLevels_get(isotope)
    IN IF IsSome(levels)
       THEN [reaction EXCEPT !.excitation_levels = Unwrap(levels)]
       ELSE reaction

-----------------------------------------------------------------------------
\* The kinematics of excitation_level_to_rho

\* const C: f64 = 299792458.0, in m/s
C == 299792458

\* const QBRHO2P: f64 = 1.0E-9 * C
QBRHO2P == Num(((C \div 1000) * FScale) \div 1000000)

\* let ke1 = term1 + (term1 * term1 + term2).sqrt();
ke1_of(term1, term2) == FAdd(term1, FSqrt(FAdd(FMul(term1, term1), term2)))

\* let ke2 = term1 + (term1 * term1 + term2).sqrt();
ke2_of(term1, term2) == FAdd(term1, FSqrt(FAdd(FMul(term1, term1), term2)))

\* the body of the loop over the levels: its locals for one excitation
level_kinematics(target, projectile, ejectile, resid, beam_energy, magnetic_field, sps_angle, excitation) ==
    LET q_value == FSub(FSub(FAdd(target.mass, projectile.mass), ejectile.mass),
                        resid.mass)
        reaction_q_value == FSub(q_value, excitation)
        term1 == FMul(FDiv(FSqrt(FMul(FMul(projectile.mass, ejectile.mass), beam_energy)),
                           FAdd(ejectile.mass, resid.mass)),
                      FCos(FDiv(FMul(sps_angle, PI), FromInt(180))))
        term2 == FDiv(FAdd(FMul(beam_energy, FSub(resid.mass, projectile.mass)),
                           FMul(resid.mass, reaction_q_value)),
                      FAdd(ejectile.mass, resid.mass))
        ke1 == ke1_of(term1, term2)
        ke2 == ke2_of(term1, term2)
        ejectile_energy == IF FGt(ke1, Num(0)) THEN FMul(ke1, ke1) ELSE FMul(ke2, ke2)
        p == FSqrt(FMul(ejectile_energy,
                        FAdd(ejectile_energy, FMul(FromInt(2), ejectile.mass))))
        qbrho == FDiv(p, QBRHO2P)
        rho == FDiv(qbrho, FMul(magnetic_field, FromInt(ejectile.z)))
    IN [term1 |-> term1, term2 |-> term2, ke1 |-> ke1, ke2 |-> ke2,
        ejectile_energy |-> ejectile_energy, rho |-> rho]

\* the reaction has the four data the unwraps of excitation_level_to_rho need
all_resolved(reaction) ==
    /\ IsSome(reaction.target_data) /\ IsSome(reaction.projectile_data)
    /\ IsSome(reaction.ejectile_data) /\ IsSome(reaction.resid_data)

\* let mut levels = excitation_levels.clone(); then every additional level pushed
working_levels(reaction) ==
    reaction.excitation_levels \o reaction.additional_excitation_levels

\* the rho_values the loop pushes: one (excitation, rho) per level, in order
push_rho_values(reaction, beam_energy, magnetic_field, sps_angle) ==
    LET levels == working_levels(reaction)
    IN [n \in 1..Len(levels) |->
          <<levels[n],
            level_kinematics(Unwrap(reaction.target_data),
                             Unwrap(reaction.projectile_data),
                             Unwrap(reaction.ejectile_data),
                             Unwrap(reaction.resid_data),
                             beam_energy, magnetic_field, sps_angle,
                             levels[n]).rho>>]

\* mutant of excitation_level_to_rho: the additional levels are pushed onto
\* excitation_levels itself, not onto a clone
excitation_level_to_rho_extends_levels(reaction, beam_energy, magnetic_field, sps_angle) ==
    IF ~all_resolved(reaction)
    THEN [reaction |-> [reaction EXCEPT !.rho_values = <<>>], panic |-> TRUE]
    ELSE [reaction |-> [reaction EXCEPT
                           !.rho_values = push_rho_values(reaction, beam_energy,
                                                          magnetic_field, sps_angle),
                           !.excitation_levels = working_levels(reaction)],
          panic |-> FALSE]

\* mutant of excitation_level_to_rho: rho_values is not cleared first
excitation_level_to_rho_no_clear(reaction, beam_energy, magnetic_field, sps_angle) ==
    IF ~all_resolved(reaction)
    THEN [reaction |-> reaction, panic |-> TRUE]
    ELSE [reaction |-> [reaction EXCEPT !.rho_values =
                           @ \o push_rho_values(reaction, beam_energy, magnetic_field,
                                               sps_angle)],
          panic |-> FALSE]

\* SPSPlotApp::excitation_level_to_rho: the reaction it leaves, and whether an
\* unwrap of a None panicked (after rho_values.clear())
excitation_level_to_rho(reaction, beam_energy, magnetic_field, sps_angle) ==
    IF ~all_resolved(reaction)
    THEN [reaction |-> [reaction EXCEPT !.rho_values = <<>>], panic |-> TRUE]
    ELSE [reaction |-> [reaction EXCEPT !.rho_values =
                           push_rho_values(reaction, beam_energy, magnetic_field,
                                           sps_angle)],
          panic |-> FALSE]

\* SPSPlotApp::calculate_rho_for_all_reactions from reaction n on: the loop stops
\* at the first panic and leaves the later reactions as they were
RECURSIVE calculate_from(_, _, _, _, _)
calculate_from(rs, n, beam_energy, magnetic_field, sps_angle) ==
    IF n > Len(rs) THEN [reactions |-> rs, panic |-> FALSE]
    ELSE LET one == excitation_level_to_rho(rs[n], beam_energy, magnetic_field,
                                            sps_angle)
             rs1 == [rs EXCEPT ![n] = one.reaction]
         IN IF one.panic THEN [reactions |-> rs1, panic |-> TRUE]
            ELSE calculate_from(rs1, n + 1, beam_energy, magnetic_field, sps_angle)

calculate_rho_for_all_reactions(rs, beam_energy, magnetic_field, sps_angle) ==
    calculate_from(rs, 1, beam_energy, magnetic_field, sps_angle)

-----------------------------------------------------------------------------
\* The application

VARIABLES
    reactions,        \* SPSPlotApp.reactions: Vec<Reaction>
    sps_angle,        \* SPSPlotApp.sps_angle, degrees
    beam_energy,      \* SPSPlotApp.beam_energy, MeV
    magnetic_field,   \* SPSPlotApp.magnetic_field, kG
    side_panel,       \* SPSPlotApp.side_panel: the excitation-level panel is shown
    panicked,         \* "no", or the panic that ended the process
    hist,             \* history, one entry per reaction: "new" (as constructed),
                      \* "got" (no Z or A dragged since its last Get Reaction),
                      \* "edited" (a Z or A dragged since)
    window,           \* SPSPlotApp.window
    storage,          \* eframe's storage: None, or Some of what it holds for APP_KEY
    window_arg,       \* history: the window argument of the SPSPlotApp::new that
                      \* built this application
    fetcher,          \* the ExcitationFetcher of the level getter: its two cells
    csv,              \* the rows of excitation_levels.csv
    fetch_log,        \* history: for each row of csv, the isotope name and the
                      \* result of the fetch made for it
    last_fetch,       \* history: the result of the latest fetch, None before any
    returned          \* what the latest process_isotopes returned, "none" before any

\* the variables of the level getter
getter_vars == <<fetcher, csv, fetch_log, last_fetch, returned>>

vars == <<reactions, sps_angle, beam_energy, magnetic_field, side_panel, panicked, hist, window, storage, window_arg, getter_vars>>

Running == panicked = "no"

\* removal of element n of a Vec
Remove(seq, n) == SubSeq(seq, 1, n - 1) \o SubSeq(seq, n + 1, Len(seq))

\* impl Default for SPSPlotApp / the literal of SPSPlotApp::new
DefaultAngle == Lit(35, 1)
DefaultBeamEnergy == Lit(16, 1)
DefaultMagneticField == Lit(87, 10)

\* the six DragValues of Reaction::settings_ui
ZAFields == {"target_z", "target_a", "projectile_z", "projectile_a",
             "ejectile_z", "ejectile_a"}

\* reactions_ui, the "+" button: self.reactions.push(Reaction::new(color))
reactions_ui_add ==
    /\ Running
    /\ Len(reactions) < MaxReactions
    /\ reactions' = Append(reactions, Reaction_new)
    /\ hist' = Append(hist, "new")
    /\ UNCHANGED <<sps_angle, beam_energy, magnetic_field, side_panel, panicked>>
    /\ UNCHANGED <<window, storage, window_arg, getter_vars>>

\* reactions_ui, the "-" button of reaction i: self.reactions.remove(index)
reactions_ui_remove ==
    /\ Running
    /\ \E i \in 1..Len(reactions) :
          /\ reactions' = Remove(reactions, i)
          /\ hist' = Remove(hist, i)
    /\ UNCHANGED <<sps_angle, beam_energy, magnetic_field, side_panel, panicked>>
    /\ UNCHANGED <<window, storage, window_arg, getter_vars>>

\* Reaction::settings_ui, a DragValue of reaction i set to v (an i32, unclamped)
settings_ui_drag(i, f, v) ==
    /\ Running
    /\ InI32(v)
    /\ reactions[i][f] # v
    /\ reactions' = [reactions EXCEPT ![i][f] = v]
    /\ hist' = [hist EXCEPT ![i] = "edited"]
    /\ UNCHANGED <<sps_angle, beam_energy, magnetic_field, side_panel, panicked>>
    /\ UNCHANGED <<window, storage, window_arg, getter_vars>>

\* Reaction::settings_ui, the "Get Reaction" button of reaction i:
\* populate_reaction_data, then fetch_excitation_levels.  An i32 sum that
\* overflows panics in a build with overflow checks and wraps in one without.
settings_ui_get_reaction ==
    /\ Running
    /\ \E i \in 1..Len(reactions) :
          \/ /\ populate_overflows(reactions[i])
             /\ panicked' = "overflow"
             /\ UNCHANGED <<reactions, hist>>
          \/ /\ reactions' = [reactions EXCEPT
                    ![i] = fetch_excitation_levels(populate_reaction_data(reactions[i]))]
             /\ hist' = [hist EXCEPT ![i] = "got"]
             /\ UNCHANGED panicked
    /\ UNCHANGED <<sps_angle, beam_energy, magnetic_field, side_panel>>
    /\ UNCHANGED <<window, storage, window_arg, getter_vars>>

\* Reaction::excitation_levels_ui, the "-" of fetched level n of reaction i
excitation_levels_ui_remove_level ==
    /\ Running /\ side_panel
    /\ \E i \in 1..Len(reactions) : \E n \in 1..Len(reactions[i].excitation_levels) :
          reactions' = [reactions EXCEPT
              ![i].excitation_levels = Remove(reactions[i].excitation_levels, n)]
    /\ UNCHANGED <<sps_angle, beam_energy, magnetic_field, side_panel, panicked, hist>>
    /\ UNCHANGED <<window, storage, window_arg, getter_vars>>

\* Reaction::excitation_levels_ui, the "Custom:" DragValue, clamped to 0.0..=f64::MAX
excitation_levels_ui_drag(v) ==
    /\ Running /\ side_panel
    /\ ~FGt(Num(0), v)
    /\ \E i \in 1..Len(reactions) :
          /\ reactions[i].add_excitation_level # v
          /\ reactions' = [reactions EXCEPT ![i].add_excitation_level = v]
    /\ UNCHANGED <<sps_angle, beam_energy, magnetic_field, side_panel, panicked, hist>>
    /\ UNCHANGED <<window, storage, window_arg, getter_vars>>

\* Reaction::excitation_levels_ui, the "+" button: push add_excitation_level
excitation_levels_ui_add ==
    /\ Running /\ side_panel
    /\ \E i \in 1..Len(reactions) :
          /\ Len(reactions[i].additional_excitation_levels) < MaxExtra
          /\ reactions' = [reactions EXCEPT ![i].additional_excitation_levels =
                              Append(@, reactions[i].add_excitation_level)]
    /\ UNCHANGED <<sps_angle, beam_energy, magnetic_field, side_panel, panicked, hist>>
    /\ UNCHANGED <<window, storage, window_arg, getter_vars>>

\* Reaction::excitation_levels_ui, the "-" of additional level n of reaction i
excitation_levels_ui_remove_additional ==
    /\ Running /\ side_panel
    /\ \E i \in 1..Len(reactions) :
       \E n \in 1..Len(reactions[i].additional_excitation_levels) :
          reactions' = [reactions EXCEPT ![i].additional_excitation_levels =
                              Remove(reactions[i].additional_excitation_levels, n)]
    /\ UNCHANGED <<sps_angle, beam_energy, magnetic_field, side_panel, panicked, hist>>
    /\ UNCHANGED <<window, storage, window_arg, getter_vars>>

\* sps_settings_ui, the "SPS Angle" DragValue, clamped to 0.0..=60.0
sps_settings_ui_angle(v) ==
    /\ Running
    /\ ~FGt(Num(0), v) /\ ~FGt(v, Lit(60, 1))
    /\ sps_angle # v
    /\ sps_angle' = v
    /\ UNCHANGED <<reactions, beam_energy, magnetic_field, side_panel, panicked, hist>>
    /\ UNCHANGED <<window, storage, window_arg, getter_vars>>

\* sps_settings_ui, the "Beam Energy" DragValue, clamped to 0.0..=f64::MAX
sps_settings_ui_beam_energy(v) ==
    /\ Running
    /\ ~FGt(Num(0), v)
    /\ beam_energy # v
    /\ beam_energy' = v
    /\ UNCHANGED <<reactions, sps_angle, magnetic_field, side_panel, panicked, hist>>
    /\ UNCHANGED <<window, storage, window_arg, getter_vars>>

\* sps_settings_ui, the "Magnetic Field" DragValue, clamped to 0.0..=17.0
sps_settings_ui_magnetic_field(v) ==
    /\ Running
    /\ ~FGt(Num(0), v) /\ ~FGt(v, Lit(17, 1))
    /\ magnetic_field # v
    /\ magnetic_field' = v
    /\ UNCHANGED <<reactions, sps_angle, beam_energy, side_panel, panicked, hist>>
    /\ UNCHANGED <<window, storage, window_arg, getter_vars>>

\* sps_settings_ui, the "Show Exciation Levels" checkbox
sps_settings_ui_side_panel ==
    /\ Running
    /\ side_panel' = ~side_panel
    /\ UNCHANGED <<reactions, sps_angle, beam_energy, magnetic_field, panicked, hist>>
    /\ UNCHANGED <<window, storage, window_arg, getter_vars>>

\* either "Calculate" button: calculate_rho_for_all_reactions
calculate ==
    /\ Running
    /\ LET done == calculate_rho_for_all_reactions(reactions, beam_energy,
                                                   magnetic_field, sps_angle)
       IN /\ reactions' = done.reactions
          /\ panicked' = IF done.panic THEN "unwrap" ELSE "no"
    /\ UNCHANGED <<sps_angle, beam_energy, magnetic_field, side_panel, hist>>
    /\ UNCHANGED <<window, storage, window_arg, getter_vars>>

-----------------------------------------------------------------------------
\* Construction and persistence

\* the application as a value (what serde writes and reads); hist goes with
\* the reactions
app_value(angle, energy, field, rs, panel, win, h) ==
    [sps_angle |-> angle, beam_energy |-> energy, magnetic_field |-> field,
     reactions |-> rs, side_panel |-> panel, window |-> win, hist |-> h]

\* impl Default for SPSPlotApp
SPSPlotApp_default ==
    app_value(DefaultAngle, DefaultBeamEnergy, DefaultMagneticField, <<>>, FALSE, FALSE, <<>>)

\* what a storage holds for APP_KEY: nothing, a string that does not
\* deserialize, or a saved application
Absent == [kind |-> "absent"]
Corrupt == [kind |-> "corrupt"]
Saved(app) == [kind |-> "app", app |-> app]

\* eframe::get_value(storage, APP_KEY): None unless the key holds a value
\* that deserializes
get_value(stored) == IF stored.kind = "app" THEN Some(stored.app) ELSE None

\* SPSPlotApp::new(cc, window), cc_storage being cc.storage
SPSPlotApp_new(cc_storage, window_) ==
    LET app == app_value(DefaultAngle, DefaultBeamEnergy, DefaultMagneticField,
                         <<>>, FALSE, window_, <<>>)
        restored == get_value(Unwrap(cc_storage))
    IN IF IsSome(cc_storage)
       THEN IF IsSome(restored) THEN Unwrap(restored) ELSE SPSPlotApp_default
       ELSE app

\* the application is app
app_is(app) ==
    /\ sps_angle = app.sps_angle
    /\ beam_energy = app.beam_energy
    /\ magnetic_field = app.magnetic_field
    /\ reactions = app.reactions
    /\ side_panel = app.side_panel
    /\ window = app.window
    /\ hist = app.hist

\* the process is started (again): the creator closure calls
\* SPSPlotApp::new(cc, w) with the storage as it is
launch(w) ==
    /\ LET app == SPSPlotApp_new(storage, w)
       IN /\ sps_angle' = app.sps_angle
          /\ beam_energy' = app.beam_energy
          /\ magnetic_field' = app.magnetic_field
          /\ reactions' = app.reactions
          /\ side_panel' = app.side_panel
          /\ window' = app.window
          /\ hist' = app.hist
    /\ window_arg' = w
    /\ panicked' = "no"
    /\ UNCHANGED <<storage, getter_vars>>

\* App::save, which eframe calls when there is a storage:
\* eframe::set_value(storage, APP_KEY, self)
save ==
    /\ Running
    /\ IsSome(storage)
    /\ storage' = Some(Saved(app_value(sps_angle, beam_energy, magnetic_field,
                                       reactions, side_panel, window, hist)))
    /\ UNCHANGED <<reactions, sps_angle, beam_energy, magnetic_field, side_panel, panicked, hist, window, window_arg, getter_vars>>

-----------------------------------------------------------------------------
\* The level getter (nndc_excitation_level_getter)

\* Result<Vec<f64>, Box<dyn Error>>, what get_excitations returns
Ok(levels) == [ok |-> TRUE, levels |-> levels, error |-> ""]
Err(e) == [ok |-> FALSE, levels |-> <<>>, error |-> e]

\* ExcitationFetcher::new
ExcitationFetcher_new == [excitation_levels |-> None, error_message |-> None]

\* ExcitationFetcher::fetch_excitation_levels, result being what
\* get_excitations gave it: one cell is assigned, the other is left alone
ExcitationFetcher_fetch_excitation_levels(self, result) ==
    IF result.ok
    THEN [self EXCEPT !.excitation_levels = Some(result.levels)]
    ELSE [self EXCEPT !.error_message = Some(result.error)]

\* Option::unwrap_or_default of a Vec
unwrap_or_default(o) == IF IsSome(o) THEN Unwrap(o) ELSE <<>>

\* f64::to_string of the levels of LevelVals
f64_to_string(v) ==
    IF v = Num(0) THEN "0" ELSE IF v = Lit(4439, 1000) THEN "4.439" ELSE "3.089"

\* u32 Display of the mass numbers of IsotopeVals
u32_to_string(a) == IF a = 12 THEN "12" ELSE "13"

\* format!("{}{}", isotope.a, isotope.el)
isotope_name(isotope) == u32_to_string(isotope.a) \o isotope.el

RECURSIVE join(_, _)
\* levels.iter().map(|l| l.to_string()).collect::<Vec<_>>().join(sep)
join(levels, sep) ==
    IF levels = <<>> THEN ""
    ELSE IF Len(levels) = 1 THEN f64_to_string(levels[1])
    ELSE f64_to_string(levels[1]) \o sep \o join(Tail(levels), sep)

\* the line writeln!(&file, "{},[{}]", isotope_name, levels_str) writes
csv_row(name, levels) == name \o ",[" \o join(levels, ", ") \o "]"

RECURSIVE process_from(_, _, _, _, _)
\* the loop of process_isotopes from iteration k on: results[k] is what the
\* fetch of iteration k gets, and the writeln of iteration failing, if any,
\* fails and ends the loop
process_from(st, isotopes, results, failing, k) ==
    IF k > Len(results)
    THEN st
    ELSE LET fetched == ExcitationFetcher_fetch_excitation_levels(st.fetcher, results[k])
             levels == unwrap_or_default(fetched.excitation_levels)
             row == csv_row(isotope_name(isotopes[k]), levels)
         IN IF k = failing
            THEN [fetcher |-> fetched, rows |-> st.rows]
            ELSE process_from([fetcher |-> fetched, rows |-> Append(st.rows, row)],
                              isotopes, results, failing, k + 1)

\* a direct call of fetch_excitation_levels on the fetcher
fetcher_fetch(result) ==
    /\ fetcher' = ExcitationFetcher_fetch_excitation_levels(fetcher, result)
    /\ last_fetch' = Some(result)
    /\ UNCHANGED <<csv, fetch_log, returned>>
    /\ UNCHANGED <<reactions, sps_angle, beam_energy, magnetic_field, side_panel, panicked, hist, window, storage, window_arg>>

\* process_isotopes when excitation_levels.csv cannot be opened (a repeated
\* failure changes nothing)
process_isotopes_no_file ==
    /\ returned # "Err"
    /\ returned' = "Err"
    /\ UNCHANGED <<fetcher, csv, fetch_log, last_fetch>>
    /\ UNCHANGED <<reactions, sps_angle, beam_energy, magnetic_field, side_panel, panicked, hist, window, storage, window_arg>>

\* process_isotopes over isotopes, the file opened: results are what the
\* fetches get; failing is 0, or the iteration whose writeln fails
process_isotopes(isotopes, results, failing) ==
    /\ Len(csv) + Len(isotopes) <= MaxRows
    /\ failing \in 0..Len(isotopes)
    /\ Len(results) = IF failing = 0 THEN Len(isotopes) ELSE failing
    /\ LET done == process_from([fetcher |-> fetcher, rows |-> <<>>], isotopes,
                                results, failing, 1)
       IN /\ fetcher' = done.fetcher
          /\ csv' = csv \o done.rows
          /\ fetch_log' = fetch_log \o
                [k \in 1..Len(done.rows) |->
                    [name |-> isotope_name(isotopes[k]), result |-> results[k]]]
          /\ last_fetch' = IF results = <<>> THEN last_fetch
                           ELSE Some(results[Len(results)])
          /\ returned' = IF failing = 0 THEN "Ok" ELSE "Err"
    /\ UNCHANGED <<reactions, sps_angle, beam_energy, magnetic_field, side_panel, panicked, hist, window, storage, window_arg>>

-----------------------------------------------------------------------------
\* Specifications

\* a reaction with the six Z and A typed in and nothing else done
typed_reaction(tz, ta, pz, pa, ez, ea) ==
    [Reaction_new EXCEPT !.target_z = tz, !.target_a = ta,
                         !.projectile_z = pz, !.projectile_a = pa,
                         !.ejectile_z = ez, !.ejectile_a = ea]

\* the same reaction after its Get Reaction
got_reaction(tz, ta, pz, pa, ez, ea) ==
    fetch_excitation_levels(populate_reaction_data(typed_reaction(tz, ta, pz, pa, ez, ea)))

\* the getter before any call: a new fetcher, no row written
GetterNew ==
    /\ fetcher = ExcitationFetcher_new
    /\ csv = <<>>
    /\ fetch_log = <<>>
    /\ last_fetch = None
    /\ returned = "none"

\* the literal of SPSPlotApp::new with window false, no storage given, and
\* the getter not run
DefaultSettings ==
    /\ sps_angle = DefaultAngle
    /\ beam_energy = DefaultBeamEnergy
    /\ magnetic_field = DefaultMagneticField
    /\ side_panel = FALSE
    /\ panicked = "no"
    /\ window = FALSE
    /\ window_arg = FALSE
    /\ storage = None
    /\ GetterNew

(* SpecResolve: Get Reaction on one reaction, for every Z and A of ZVals and *)
(* AVals typed into its three roles.                                         *)
ZVals == {I32Min, -1, 0, 1, 6, I32Max}
AVals == {0, 1, 2, 12, I32Max}

InitResolve ==
    /\ DefaultSettings
    /\ \E tz \in ZVals, pz \in ZVals, ez \in ZVals, ta \in AVals, pa \in AVals, ea \in AVals :
          reactions = <<typed_reaction(tz, ta, pz, pa, ez, ea)>>
    /\ hist = <<"edited">>

NextResolve == settings_ui_get_reaction

SpecResolve == InitResolve /\ [][NextResolve]_vars

(* SpecReaction: one reaction from Reaction::new on; its Z and A are dragged *)
(* (each to one of two values), Get Reaction and Calculate are clicked.      *)
DragVals(f) ==
    CASE f = "target_z" -> {0, 6}
      [] f = "target_a" -> {0, 12}
      [] f = "projectile_z" -> {0, 1}
      [] f = "projectile_a" -> {0, 2}
      [] f = "ejectile_z" -> {0, 1}
      [] f = "ejectile_a" -> {0, 1}

InitReaction ==
    /\ DefaultSettings
    /\ reactions = <<Reaction_new>>
    /\ hist = <<"new">>

NextReaction ==
    \/ \E f \in ZAFields : \E v \in DragVals(f) : settings_ui_drag(1, f, v)
    \/ settings_ui_get_reaction
    \/ calculate

SpecReaction == InitReaction /\ [][NextReaction]_vars

\* reactions a stored application can hold: new, or got and fully resolved
StoredReactions ==
    { Reaction_new,
      got_reaction(6, 12, 1, 2, 1, 1),
      got_reaction(6, 12, 1, 2, 0, 1) }

AngleVals == {DefaultAngle, Lit(60, 1)}
BeamEnergyVals == {DefaultBeamEnergy, Num(0)}
MagneticFieldVals == {DefaultMagneticField, Num(0)}
AddLevelVals == {Num(0), Lit(20, 1)}

hist_of_stored(rs) ==
    [i \in 1..Len(rs) |-> IF rs[i] = Reaction_new THEN "new" ELSE "got"]

(* SpecLevels: the application restored from storage with one reaction and   *)
(* the level panel shown; the panel is toggled, levels are removed and       *)
(* added, Get Reaction and Calculate are clicked, under the default          *)
(* settings.                                                                 *)
InitLevels ==
    /\ sps_angle = DefaultAngle
    /\ beam_energy = DefaultBeamEnergy
    /\ magnetic_field = DefaultMagneticField
    /\ side_panel = TRUE
    /\ panicked = "no"
    /\ window = FALSE
    /\ window_arg = FALSE
    /\ storage = None
    /\ GetterNew
    /\ \E r \in StoredReactions : reactions = <<r>>
    /\ hist = hist_of_stored(reactions)

NextLevels ==
    \/ settings_ui_get_reaction
    \/ excitation_levels_ui_remove_level
    \/ \E v \in AddLevelVals : excitation_levels_ui_drag(v)
    \/ excitation_levels_ui_add
    \/ excitation_levels_ui_remove_additional
    \/ sps_settings_ui_side_panel
    \/ calculate

SpecLevels == InitLevels /\ [][NextLevels]_vars

(* SpecBatch: the application restored from storage with up to MaxReactions  *)
(* reactions; reactions are added, removed and got, the angle, the beam      *)
(* energy and the magnetic field are dragged and Calculate is clicked.       *)
InitBatch ==
    /\ DefaultSettings
    /\ \E n \in 0..MaxReactions : reactions \in [1..n -> StoredReactions]
    /\ hist = hist_of_stored(reactions)

NextBatch ==
    \/ reactions_ui_add
    \/ reactions_ui_remove
    \/ settings_ui_get_reaction
    \/ \E v \in AngleVals : sps_settings_ui_angle(v)
    \/ \E v \in BeamEnergyVals : sps_settings_ui_beam_energy(v)
    \/ \E v \in MagneticFieldVals : sps_settings_ui_magnetic_field(v)
    \/ calculate

SpecBatch == InitBatch /\ [][NextBatch]_vars

\* the isotopes the getter is run over, and what a fetch can give: no level,
\* one level, two levels, or an error
IsotopeVals == {[a |-> 12, el |-> "C"], [a |-> 13, el |-> "C"]}
IsotopeLists == UNION {[1..n -> IsotopeVals] : n \in 1..MaxIsotopes}
LevelVals == {Num(0), Lit(4439, 1000)}
FetchResults ==
    {Ok(<<>>), Ok(<<Num(0)>>), Ok(<<Num(0), Lit(4439, 1000)>>),
     Err("Table not found or doesn't contain enough data")}

(* SpecFetch: one ExcitationFetcher; fetch_excitation_levels is called on it *)
(* directly and by process_isotopes, over lists of up to MaxIsotopes         *)
(* isotopes, until excitation_levels.csv holds MaxRows rows.                 *)
InitFetch ==
    /\ DefaultSettings
    /\ reactions = <<>>
    /\ hist = <<>>

NextFetch ==
    \/ \E result \in FetchResults : fetcher_fetch(result)
    \/ process_isotopes_no_file
    \/ \E isotopes \in IsotopeLists : \E failing \in 0..Len(isotopes) :
       \E results \in [1..(IF failing = 0 THEN Len(isotopes) ELSE failing) -> FetchResults] :
          process_isotopes(isotopes, results, failing)

SpecFetch == InitFetch /\ [][NextFetch]_vars

(* SpecStart: the application as SPSPlotApp::new built it, with or without  *)
(* a storage; reactions are added, the angle and the panel are changed, the  *)
(* application is saved and the process is started again.                    *)
StorageVals == {None, Some(Absent), Some(Corrupt)}

InitStart ==
    /\ storage \in StorageVals
    /\ window_arg \in BOOLEAN
    /\ app_is(SPSPlotApp_new(storage, window_arg))
    /\ panicked = "no"
    /\ GetterNew

NextStart ==
    \/ \E w \in BOOLEAN : launch(w)
    \/ save
    \/ reactions_ui_add
    \/ \E v \in AngleVals : sps_settings_ui_angle(v)
    \/ sps_settings_ui_side_panel

SpecStart == InitStart /\ [][NextStart]_vars

-----------------------------------------------------------------------------
\* Properties

\* the excitation energies (first components) of a rho_values
Energies(rho_values) == [n \in 1..Len(rho_values) |-> rho_values[n][1]]

\* reaction i is reached by the loop of calculate_rho_for_all_reactions and
\* has its four data
evaluated(rs, i) == \A j \in 1..i : all_resolved(rs[j])

\* the locals of the loop body for a level of a resolved reaction, under the
\* current settings
kinematics_now(reaction, excitation) ==
    level_kinematics(Unwrap(reaction.target_data), Unwrap(reaction.projectile_data),
                     Unwrap(reaction.ejectile_data), Unwrap(reaction.resid_data),
                     beam_energy, magnetic_field, sps_angle, excitation)

\* term1^2 + term2
discriminant(k) == FAdd(FMul(k.term1, k.term1), k.term2)

(* C1: a Calculate over a set that holds a reaction with an unresolved       *)
(* nuclide ends without a panic and leaves that reaction with empty          *)
(* rho_values.                                                               *)
C1_UnresolvedEvaluatesWithoutPanic ==
    [][calculate =>
         /\ panicked' = "no"
         /\ \A i \in 1..Len(reactions) :
               ~all_resolved(reactions[i]) => reactions'[i].rho_values = <<>>]_vars

(* C2: a Calculate recomputes the rho_values of every fully resolved         *)
(* reaction of the set, whether it stands before or after a reaction that    *)
(* fails.                                                                    *)
C2_PerReactionIsolation ==
    [][calculate =>
         \A i \in 1..Len(reactions) :
            all_resolved(reactions[i]) =>
               reactions'[i].rho_values =
                  push_rho_values(reactions[i], beam_energy, magnetic_field, sps_angle)]_vars

(* C3: for every level a Calculate evaluates, the roots are                  *)
(* k1 = term1 + sqrt(d) and k2 = term1 - sqrt(d) with d = term1^2 + term2,   *)
(* and the ejectile energy is k1^2 when k1 > 0 and k2^2 otherwise.           *)
C3_RootSelection ==
    [][calculate =>
         \A i \in 1..Len(reactions) :
            evaluated(reactions, i) =>
               \A n \in 1..Len(working_levels(reactions[i])) :
                  LET k == kinematics_now(reactions[i], working_levels(reactions[i])[n])
                      root == FSqrt(discriminant(k))
                      k1 == FAdd(k.term1, root)
                      k2 == FSub(k.term1, root)
                  IN /\ k.ke1 = k1
                     /\ k.ke2 = k2
                     /\ k.ejectile_energy =
                           IF FGt(k1, Num(0)) THEN FMul(k1, k1) ELSE FMul(k2, k2)]_vars

\* the levels of a resolved reaction whose discriminant is not negative
open_levels(reaction) ==
    SelectSeq(working_levels(reaction),
              LAMBDA ex : ~FGt(Num(0), discriminant(kinematics_now(reaction, ex))))

(* C4: a Calculate appends no pair for a level whose discriminant            *)
(* term1^2 + term2 is negative, and appends the pair of every other level    *)
(* of the same reaction.                                                     *)
C4_ForbiddenChannelSkipped ==
    [][calculate =>
         \A i \in 1..Len(reactions) :
            evaluated(reactions, i) =>
               Energies(reactions'[i].rho_values) = open_levels(reactions[i])]_vars

(* C5: right after a resolved reaction is evaluated, the energies of its     *)
(* rho_values are excitation_levels followed by                              *)
(* additional_excitation_levels, each in its order, one pair per energy;     *)
(* nothing of the earlier rho_values is kept.                                *)
C5_OrderAndLength ==
    [][calculate =>
         \A i \in 1..Len(reactions) :
            evaluated(reactions, i) =>
               /\ Energies(reactions'[i].rho_values) =
                     reactions[i].excitation_levels
                        \o reactions[i].additional_excitation_levels
               /\ Len(reactions'[i].rho_values) =
                     Len(reactions[i].excitation_levels)
                        + Len(reactions[i].additional_excitation_levels)]_vars

\* an evaluated reaction with two fetched and two distinct additional levels
C5_Witness ==
    \E i \in 1..Len(reactions) :
       /\ all_resolved(reactions[i])
       /\ Len(reactions[i].excitation_levels) = 2
       /\ Len(reactions[i].additional_excitation_levels) = 2
       /\ reactions[i].additional_excitation_levels[1]
             # reactions[i].additional_excitation_levels[2]
       /\ Len(reactions[i].rho_values) = 4
       /\ Energies(reactions[i].rho_values) =
             reactions[i].excitation_levels \o reactions[i].additional_excitation_levels

(* C6 as stated: after Get Reaction returns, resid_z and resid_a are the     *)
(* integers target + projectile - ejectile, whatever Z and A were typed.     *)
C6_ResidualBalanceExact ==
    \A i \in 1..Len(reactions) :
       hist[i] = "got" =>
          /\ reactions[i].resid_z = reactions[i].target_z + reactions[i].projectile_z
                                       - reactions[i].ejectile_z
          /\ reactions[i].resid_a = reactions[i].target_a + reactions[i].projectile_a
                                       - reactions[i].ejectile_a

\* a sum of r's balance leaves the i32 range: t + p, or t + p - e
SumOutsideI32(r) ==
    \/ ~InI32(r.target_z + r.projectile_z)
    \/ ~InI32(r.target_z + r.projectile_z - r.ejectile_z)
    \/ ~InI32(r.target_a + r.projectile_a)
    \/ ~InI32(r.target_a + r.projectile_a - r.ejectile_a)

\* r is s as an i32 holds it: equal modulo 2^IntBits, and equal when s fits
HoldsAsI32(r, s) ==
    /\ InI32(r)
    /\ (r - s) % Pow2(IntBits) = 0
    /\ InI32(s) => r = s

(* C6 amended: after Get Reaction returns, resid_z and resid_a are           *)
(* target + projectile - ejectile whenever that fits an i32, and that value  *)
(* wrapped to an i32 otherwise; Get Reaction panics only on a sum that       *)
(* overflows an i32.                                                         *)
C6_ResidualBalanceI32 ==
    /\ \A i \in 1..Len(reactions) :
          hist[i] = "got" =>
             /\ HoldsAsI32(reactions[i].resid_z,
                           reactions[i].target_z + reactions[i].projectile_z
                              - reactions[i].ejectile_z)
             /\ HoldsAsI32(reactions[i].resid_a,
                           reactions[i].target_a + reactions[i].projectile_a
                              - reactions[i].ejectile_a)
    /\ panicked # "no" => \E i \in 1..Len(reactions) : SumOutsideI32(reactions[i])

\* 12C(d,p): target (6,12), projectile (1,2), ejectile (1,1) got, residual (6,13)
C6_Witness ==
    \E i \in 1..Len(reactions) :
       /\ hist[i] = "got"
       /\ reactions[i].target_z = 6 /\ reactions[i].target_a = 12
       /\ reactions[i].projectile_z = 1 /\ reactions[i].projectile_a = 2
       /\ reactions[i].ejectile_z = 1 /\ reactions[i].ejectile_a = 1
       /\ reactions[i].resid_z = 6 /\ reactions[i].resid_a = 13

\* the label a role's data gives the identifier
LabelOf(data) == IF data = <<>> THEN "None" ELSE data[1].isotope

\* the data, the residual and the identifier of r are those of its Z and A
Consistent(r) ==
    /\ HoldsAsI32(r.resid_z, r.target_z + r.projectile_z - r.ejectile_z)
    /\ HoldsAsI32(r.resid_a, r.target_a + r.projectile_a - r.ejectile_a)
    /\ r.target_data = get_data(AsU32(r.target_z), AsU32(r.target_a))
    /\ r.projectile_data = get_data(AsU32(r.projectile_z), AsU32(r.projectile_a))
    /\ r.ejectile_data = get_data(AsU32(r.ejectile_z), AsU32(r.ejectile_a))
    /\ r.resid_data = get_data(AsU32(r.resid_z), AsU32(r.resid_a))
    /\ r.reaction_identifier =
          LabelOf(r.target_data) \o "(" \o LabelOf(r.projectile_data) \o ","
             \o LabelOf(r.ejectile_data) \o ")" \o LabelOf(r.resid_data)

(* C7 as stated: in every reachable state the stored residual and the        *)
(* resolved data are those of the stored target, projectile and ejectile.    *)
C7_BalanceAlways ==
    \A i \in 1..Len(reactions) :
       /\ reactions[i].resid_z = reactions[i].target_z + reactions[i].projectile_z
                                    - reactions[i].ejectile_z
       /\ reactions[i].resid_a = reactions[i].target_a + reactions[i].projectile_a
                                    - reactions[i].ejectile_a
       /\ reactions[i].target_data =
             get_data(AsU32(reactions[i].target_z), AsU32(reactions[i].target_a))
       /\ reactions[i].projectile_data =
             get_data(AsU32(reactions[i].projectile_z), AsU32(reactions[i].projectile_a))
       /\ reactions[i].ejectile_data =
             get_data(AsU32(reactions[i].ejectile_z), AsU32(reactions[i].ejectile_a))

(* C7 amended: the residual, the data and the identifier of a reaction are   *)
(* those of its stored Z and A whenever no Z or A of it was dragged since    *)
(* its last Get Reaction, Calculate clicks included; a reaction never got    *)
(* holds the zero residual and no data.                                      *)
C7_BalanceSinceGet ==
    \A i \in 1..Len(reactions) :
       /\ hist[i] = "got" => Consistent(reactions[i])
       /\ hist[i] = "new" =>
             /\ reactions[i].resid_z = 0 /\ reactions[i].resid_a = 0
             /\ reactions[i].resid_data = <<>>

\* 12C(d,p)13C got and then evaluated, nothing dragged since
C7_Witness ==
    \E i \in 1..Len(reactions) :
       /\ hist[i] = "got"
       /\ reactions[i].target_z = 6 /\ reactions[i].projectile_z = 1
       /\ reactions[i].ejectile_z = 1
       /\ reactions[i].resid_z = 6 /\ reactions[i].resid_a = 13
       /\ reactions[i].rho_values # <<>>

(* C8: after Get Reaction, reaction_identifier is "T(P,E)R", each of T, P,   *)
(* E, R the isotope label of the role's data or "None" when the lookup gave  *)
(* nothing, and each data is what the lookup of the role's (Z, A) gave; an   *)
(* unresolved role raises no error.                                          *)
C8_IdentifierFromLabels ==
    /\ \A i \in 1..Len(reactions) :
          hist[i] = "got" =>
             /\ reactions[i].target_data =
                   get_data(AsU32(reactions[i].target_z), AsU32(reactions[i].target_a))
             /\ reactions[i].projectile_data =
                   get_data(AsU32(reactions[i].projectile_z),
                            AsU32(reactions[i].projectile_a))
             /\ reactions[i].ejectile_data =
                   get_data(AsU32(reactions[i].ejectile_z), AsU32(reactions[i].ejectile_a))
             /\ reactions[i].resid_data =
                   get_data(AsU32(reactions[i].resid_z), AsU32(reactions[i].resid_a))
             /\ reactions[i].reaction_identifier =
                   LabelOf(reactions[i].target_data) \o "("
                      \o LabelOf(reactions[i].projectile_data) \o ","
                      \o LabelOf(reactions[i].ejectile_data) \o ")"
                      \o LabelOf(reactions[i].resid_data)
    /\ panicked # "no" => \E i \in 1..Len(reactions) : SumOutsideI32(reactions[i])

\* a Get Reaction with two roles resolved and two not
C8_Witness ==
    \E i \in 1..Len(reactions) :
       /\ hist[i] = "got"
       /\ panicked = "no"
       /\ reactions[i].reaction_identifier = "12C(None,1H)None"

(* C9: excitation_levels is empty whenever the residual is unresolved or     *)
(* the level table has nothing for the residual's isotope.                   *)
C9_LevelsEmptyWithoutSource ==
    \A i \in 1..Len(reactions) :
       (\/ reactions[i].resid_data = <<>>
        \/ ExcitationLevels_get(LabelOf(reactions[i].resid_data)) = <<>>)
          => reactions[i].excitation_levels = <<>>

(* C10: a Calculate with magnetic field <= 0, or on a reaction whose         *)
(* ejectile has charge <= 0, appends no pair to that reaction's rho_values.  *)
C10_InvalidParameterRefused ==
    [][calculate =>
         \A i \in 1..Len(reactions) :
            (/\ evaluated(reactions, i)
             /\ \/ ~FGt(magnetic_field, Num(0))
                \/ Unwrap(reactions[i].ejectile_data).z <= 0)
               => reactions'[i].rho_values = <<>>]_vars

\* the fields populate_reaction_data writes
ResolvedFields ==
    {"target_data", "projectile_data", "ejectile_data", "resid_data",
     "resid_z", "resid_a", "reaction_identifier"}

\* this step keeps the rho_values of every reaction it keeps: the reactions
\* are the same in number, or one new reaction with no rho_values is pushed,
\* or one reaction is removed and the others are as they were
rho_values_kept ==
    \/ /\ Len(reactions') = Len(reactions)
       /\ \A i \in 1..Len(reactions) :
             reactions'[i].rho_values = reactions[i].rho_values
    \/ /\ Len(reactions') = Len(reactions) + 1
       /\ \A i \in 1..Len(reactions) :
             reactions'[i].rho_values = reactions[i].rho_values
       /\ reactions'[Len(reactions')].rho_values = <<>>
    \/ \E n \in 1..Len(reactions) : reactions' = Remove(reactions, n)

(* C11: populate_reaction_data changes no field of a reaction other than     *)
(* the four data, resid_z, resid_a and reaction_identifier, so               *)
(* excitation_levels, additional_excitation_levels and rho_values are as     *)
(* they were; a Get Reaction keeps additional_excitation_levels and          *)
(* rho_values; and every step that is not a Calculate keeps rho_values.      *)
C11_ResolveFrame ==
    [][/\ \A i \in 1..Len(reactions) :
             LET populated == populate_reaction_data(reactions[i])
             IN \A f \in (DOMAIN reactions[i]) \ ResolvedFields :
                   populated[f] = reactions[i][f]
       /\ \/ /\ Len(reactions') = Len(reactions)
             /\ \A i \in 1..Len(reactions) :
                   /\ reactions'[i].rho_values = reactions[i].rho_values
                   /\ reactions'[i].additional_excitation_levels =
                         reactions[i].additional_excitation_levels
          \/ ~settings_ui_get_reaction
       /\ rho_values_kept \/ calculate]_vars

\* a reaction got again after a Calculate: its rho_values are still those of
\* the levels it had before
C11_Witness ==
    \E i \in 1..Len(reactions) :
       /\ hist[i] = "got"
       /\ reactions[i].rho_values # <<>>
       /\ Energies(reactions[i].rho_values) #
             reactions[i].excitation_levels \o reactions[i].additional_excitation_levels

\* the reactions with their rho_values emptied
without_rho_values(rs) == [i \in 1..Len(rs) |-> [rs[i] EXCEPT !.rho_values = <<>>]]

(* C12: a second calculate_rho_for_all_reactions right after a first, with   *)
(* the reactions and the three settings as the first left them, leaves every *)
(* reaction as it is; and what a Calculate that returns leaves is what it    *)
(* leaves from the same reactions with their rho_values emptied.             *)
C12_EvaluateIdempotent ==
    [][calculate =>
         LET again == calculate_rho_for_all_reactions(reactions', beam_energy',
                                                      magnetic_field', sps_angle')
             fresh == calculate_rho_for_all_reactions(without_rho_values(reactions),
                                                      beam_energy, magnetic_field,
                                                      sps_angle)
         IN /\ again.reactions = reactions'
            /\ again.panic = (panicked' # "no")
            /\ panicked' = "no" => fresh.reactions = reactions']_vars

\* an evaluated reaction with a fetched level, an additional level and a pair
\* whose rho is NaN, its rho_values being those of its present levels
C12_Witness ==
    \E i \in 1..Len(reactions) :
       /\ all_resolved(reactions[i])
       /\ reactions[i].excitation_levels # <<>>
       /\ reactions[i].additional_excitation_levels # <<>>
       /\ \E n \in 1..Len(reactions[i].rho_values) : IsNaN(reactions[i].rho_values[n][2])
       /\ reactions[i].rho_values =
             push_rho_values(reactions[i], beam_energy, magnetic_field, sps_angle)

\* Reaction::draw: one bar per pair of rho_values, at rho, offset by y_offset
draw(reaction, y_offset) ==
    [n \in 1..Len(reaction.rho_values) |->
        [argument |-> reaction.rho_values[n][2],
         excitation |-> reaction.rho_values[n][1],
         base_offset |-> y_offset]]

\* SPSPlotApp::plot, shown by every frame: the bar chart of each reaction
plot ==
    [i \in 1..Len(reactions) |->
        draw(reactions[i], FAdd(FromInt(i - 1), Lit(25, 100)))]

(* C13: the bars the plot shows for a reaction are never those of            *)
(* rho_values computed with other data or settings than the present ones:    *)
(* a reaction with bars is resolved and its bars are those of its levels     *)
(* under the present data, beam energy, magnetic field and angle.            *)
C13_NoStaleDisplay ==
    \A i \in 1..Len(reactions) :
       plot[i] # <<>> =>
          /\ all_resolved(reactions[i])
          /\ plot[i] =
                draw([reactions[i] EXCEPT !.rho_values =
                         push_rho_values(reactions[i], beam_energy, magnetic_field,
                                         sps_angle)],
                     FAdd(FromInt(i - 1), Lit(25, 100)))

(* C14: the row process_isotopes writes for an isotope whose fetch failed    *)
(* differs from the row a fetch that succeeds with zero levels gives that    *)
(* isotope.                                                                  *)
C14_FailedFetchDistinguishable ==
    \A k \in 1..Len(csv) :
       ~fetch_log[k].result.ok => csv[k] # csv_row(fetch_log[k].name, <<>>)

(* C15: every row of the file carries the levels the fetch made for its own  *)
(* isotope obtained: those of the result when the fetch succeeded, none      *)
(* when it failed, never those of an earlier fetch.                          *)
C15_RowCarriesOwnFetch ==
    \A k \in 1..Len(csv) :
       csv[k] = csv_row(fetch_log[k].name, fetch_log[k].result.levels)

(* C16: after any fetches the cells describe the latest one only:            *)
(* error_message is Some exactly when it failed, excitation_levels is Some   *)
(* exactly when it succeeded, and the two are never both Some.               *)
C16_CellsDescribeLatestFetch ==
    /\ IsSome(last_fetch) =>
          /\ IsSome(fetcher.error_message) <=> ~Unwrap(last_fetch).ok
          /\ IsSome(fetcher.excitation_levels) <=> Unwrap(last_fetch).ok
    /\ ~(IsSome(fetcher.error_message) /\ IsSome(fetcher.excitation_levels))

(* C17: after Get Reaction, a role whose stored Z or A is negative holds no  *)
(* data and stands as "None" in the identifier: the cast to u32 takes no     *)
(* negative Z or A onto a key of the mass table.                             *)
C17_NegativeNeverResolves ==
    \A i \in 1..Len(reactions) :
       hist[i] = "got" =>
          LET r == reactions[i]
              Label(z, a, data) == IF z < 0 \/ a < 0 THEN "None" ELSE LabelOf(data)
          IN /\ (r.target_z < 0 \/ r.target_a < 0) => r.target_data = None
             /\ (r.projectile_z < 0 \/ r.projectile_a < 0) => r.projectile_data = None
             /\ (r.ejectile_z < 0 \/ r.ejectile_a < 0) => r.ejectile_data = None
             /\ (r.resid_z < 0 \/ r.resid_a < 0) => r.resid_data = None
             /\ r.reaction_identifier =
                   Label(r.target_z, r.target_a, r.target_data) \o "("
                      \o Label(r.projectile_z, r.projectile_a, r.projectile_data) \o ","
                      \o Label(r.ejectile_z, r.ejectile_a, r.ejectile_data) \o ")"
                      \o Label(r.resid_z, r.resid_a, r.resid_data)

\* a reaction got with target Z = -1, A = 1 (1H by magnitude), a resolved
\* ejectile and a negative residual
C17_Witness ==
    \E i \in 1..Len(reactions) :
       /\ hist[i] = "got"
       /\ reactions[i].target_z = -1 /\ reactions[i].target_a = 1
       /\ reactions[i].target_data = None
       /\ reactions[i].ejectile_data # None
       /\ reactions[i].resid_z < 0
       /\ reactions[i].resid_data = None

(* C18: the application SPSPlotApp::new(cc, window) returns has the window   *)
(* flag it was given, with or without a storage and whatever the storage     *)
(* holds.                                                                    *)
C18_WindowIsArgument == window = window_arg

=============================================================================
